---- MODULE Spec2Model ----
(***************************************************************************)
(* Model of package localaddr (src/localaddr.go): the function Get walks   *)
(* the interfaces reported by the operating system and returns the first   *)
(* non-loopback IPv4 address of an interface that is up.                   *)
(*                                                                         *)
(* The operating system's answer is fixed in the initial state; a call of  *)
(* Get is a small-step process (one step per call into package net and per *)
(* loop iteration), so that several calls can overlap.                     *)
(***************************************************************************)
EXTENDS Integers, Sequences, FiniteSets, TLC

\* ---------------------------------------------------------------- bounds
\* At most MaxIfaces interfaces, carrying at most MaxEntries addresses in all.
MaxIfaces == 2
MaxEntries == 2

\* ------------------------------------------------------------ the callers
Callers == {"a", "b"}

\* ------------------------------------------------------- values of package net
\* A nil net.IP (a nil byte slice), also what To4 returns for "no 4-byte form".
NilIP == << >>

\* A nil error.
NoError == "<nil>"

\* The errors the operating system can answer a listing with.
ErrInterfaces == "route ip+net: permission denied"
ErrAddrs == "route ip+net: no such network interface"

\* The error Get makes itself (line 54).
ErrNotConnected == "not connected to the network"

IPv4(a, b, c, d) == <<0, 0, 0, 0, 0, 0, 0, 0, 0, 0, 255, 255, a, b, c, d>>
IPv6loopback == <<0, 0, 0, 0, 0, 0, 0, 0, 0, 0, 0, 0, 0, 0, 0, 1>>
LinkLocal6 == <<254, 128, 0, 0, 0, 0, 0, 0, 0, 0, 0, 0, 0, 0, 0, 1>>

\* net.Addr values: *net.IPNet, *net.IPAddr, and an implementation of net.Addr
\* that is neither (it has no IP field the switch of lines 38-43 reads).
IPNet(ip, ones) == [type |-> "IPNet", IP |-> ip, Mask |-> ones]
IPAddr(ip) == [type |-> "IPAddr", IP |-> ip, Zone |-> ""]
OtherAddr == [type |-> "other"]

\* The address entries the modelled operating system can report (net.Addr
\* values are pointers, named here by what they point to).
AddrUniverse ==
    { "&IPNet{192.168.1.2/24}",     \* IPv4, 4-byte form, with prefix
      "&IPAddr{10.0.0.5}",          \* IPv4, 16-byte form, bare
      "&IPNet{127.0.0.1/8}",        \* IPv4 loopback
      "&IPNet{fe80::1/64}",         \* IPv6 only
      "&other{}" }                  \* neither *IPNet nor *IPAddr

\* The same IP values in the other representation, or with another prefix
\* length.
OtherForms ==
    { "&IPAddr{192.168.1.2}", "&IPNet{192.168.1.2/16}", "&IPNet{10.0.0.5/8}",
      "&IPAddr{127.0.0.1}", "&IPAddr{fe80::1}" }

\* The structures the pointers point to.
Heap ==
    [ p \in AddrUniverse \cup OtherForms |->
        CASE p = "&IPNet{192.168.1.2/24}" -> IPNet(<<192, 168, 1, 2>>, 24)
          [] p = "&IPAddr{192.168.1.2}" -> IPAddr(<<192, 168, 1, 2>>)
          [] p = "&IPNet{192.168.1.2/16}" -> IPNet(<<192, 168, 1, 2>>, 16)
          [] p = "&IPAddr{10.0.0.5}" -> IPAddr(IPv4(10, 0, 0, 5))
          [] p = "&IPNet{10.0.0.5/8}" -> IPNet(IPv4(10, 0, 0, 5), 8)
          [] p = "&IPNet{127.0.0.1/8}" -> IPNet(<<127, 0, 0, 1>>, 8)
          [] p = "&IPAddr{127.0.0.1}" -> IPAddr(<<127, 0, 0, 1>>)
          [] p = "&IPNet{fe80::1/64}" -> IPNet(LinkLocal6, 64)
          [] p = "&IPAddr{fe80::1}" -> IPAddr(LinkLocal6)
          [] p = "&other{}" -> OtherAddr ]

Deref(p) == Heap[p]

AllFlags == {"up", "loopback"}

\* ip.To4(): the 4-byte form of ip, or nil.
To4(ip) ==
    IF Len(ip) = 4 THEN ip
    ELSE IF /\ Len(ip) = 16
            /\ \A k \in 1..10 : ip[k] = 0
            /\ ip[11] = 255
            /\ ip[12] = 255
         THEN SubSeq(ip, 13, 16)
         ELSE NilIP

\* ip.IsLoopback().
IsLoopback(ip) ==
    IF To4(ip) # NilIP THEN To4(ip)[1] = 127 ELSE ip = IPv6loopback

\* ip.String() for the values Get prints: nil and the IPv4 forms.
String(ip) ==
    IF Len(ip) = 0 THEN "<nil>"
    ELSE IF To4(ip) # NilIP
         THEN LET p == To4(ip)
              IN ToString(p[1]) \o "." \o ToString(p[2]) \o "."
                   \o ToString(p[3]) \o "." \o ToString(p[4])
         ELSE "?"

\* Mutant of UnderlyingIP: the case *net.IPAddr is missing from the switch.
UnderlyingIPNetOnly(addr) ==
    IF addr.type = "IPNet" THEN addr.IP ELSE NilIP

\* The type switch of lines 37-43: the IP of an *IPNet or *IPAddr, else nil.
UnderlyingIP(addr) ==
    IF addr.type = "IPNet" THEN addr.IP
    ELSE IF addr.type = "IPAddr" THEN addr.IP
    ELSE NilIP

\* Mutant of IsDown: the test is inverted (!= 0 for == 0).
IsDownInverted(v) == "up" \in v.Flags

\* Line 26: v.Flags&net.FlagUp == 0.
IsDown(v) == "up" \notin v.Flags

\* Line 29: v.Flags&net.FlagLoopback != 0.
IsLoopbackInterface(v) == "loopback" \in v.Flags

\* Mutant of Skipped: the test ip.IsLoopback() is missing.
SkippedNoLoopback(addr) ==
    LET ip == UnderlyingIP(addr)
    IN \/ ip = NilIP
       \/ To4(ip) = NilIP

\* Mutant of Skipped: the test of lines 48-50 (ip == nil after To4) is missing.
SkippedNoNarrow(addr) ==
    LET ip == UnderlyingIP(addr)
    IN \/ ip = NilIP
       \/ IsLoopback(ip)

\* Lines 44 and 47-48: the address entry is passed over.
Skipped(addr) ==
    LET ip == UnderlyingIP(addr)
    IN \/ ip = NilIP
       \/ IsLoopback(ip)
       \/ To4(ip) = NilIP

\* -------------------------------------------------- operating system states
\* An interface: its flags and what v.Addrs() answers (a list, or an error and
\* then no list).
Interface(flags, list, e) == [Flags |-> flags, addrs |-> list, err |-> e]

RECURSIVE Sum(_, _)
Sum(f, m) == IF m = 0 THEN 0 ELSE f[m] + Sum(f, m - 1)

\* The shapes of an interface list: for each of m interfaces whether its
\* address listing fails and, if not, how many entries it answers; at most
\* MaxEntries entries in all.
Shapes(m) ==
    { sh \in [1..m -> [fails : BOOLEAN, n : 0..MaxEntries]] :
          /\ \A k \in 1..m : sh[k].fails => sh[k].n = 0
          /\ Sum([k \in 1..m |-> sh[k].n], m) <= MaxEntries }

\* The interface list of shape sh with flags fl, its entries taken in order
\* from the sequence flat.
InterfaceList(sh, fl, flat) ==
    [k \in DOMAIN sh |->
        LET before == Sum([x \in DOMAIN sh |-> sh[x].n], k - 1)
        IN Interface(fl[k],
                     [x \in 1..sh[k].n |-> flat[before + x]],
                     IF sh[k].fails THEN ErrAddrs ELSE NoError)]

\* What the operating system holds: e, the answer to listing the interfaces
\* (an error or none), and the interfaces.
OSState(e, l) == [err |-> e, ifaces |-> l]

\* ------------------------------------------------------------------- state
VARIABLES
    os,       \* what the operating system holds (read by net.Interfaces, v.Addrs)
    pc,       \* pc[c]: where the call of c stands
    i,        \* i[c]: index of the interface v of the outer loop (line 25)
    j,        \* j[c]: index of the entry addr of the inner loop (line 36)
    ret,      \* ret[c]: the pair Get returned
    queried   \* queried[c]: the interfaces whose Addrs() the call invoked, in order

vars == <<os, pc, i, j, ret, queried>>

\* The four return statements of Get.
Returned == {"ret23", "ret34", "ret51", "ret54"}

Done(c) == pc[c] \in Returned

InitOS ==
    \E e \in {NoError, ErrInterfaces}, m \in 0..MaxIfaces :
      \E sh \in Shapes(m), fl \in [1..m -> SUBSET AllFlags] :
        \E flat \in [1..Sum([k \in 1..m |-> sh[k].n], m) -> AddrUniverse] :
          os = OSState(e, InterfaceList(sh, fl, flat))

InitLocals ==
    /\ i = [c \in Callers |-> 0]
    /\ j = [c \in Callers |-> 0]
    /\ ret = [c \in Callers |-> [addr |-> "", err |-> NoError]]
    /\ queried = [c \in Callers |-> << >>]

\* One call of Get.
Init ==
    /\ InitOS
    /\ pc = [c \in Callers |-> IF c = "a" THEN "L21" ELSE "idle"]
    /\ InitLocals

\* Two calls of Get that may overlap.
InitConc ==
    /\ InitOS
    /\ pc = [c \in Callers |-> "L21"]
    /\ InitLocals

\* Mutant of ToInterface: line 54 returns a nil error (an empty success).
ToInterfaceEmptySuccess(c, k) ==
    IF k > Len(os.ifaces)
    THEN /\ ret' = [ret EXCEPT ![c] = [addr |-> "", err |-> NoError]]
         /\ pc' = [pc EXCEPT ![c] = "ret54"]
         /\ i' = [i EXCEPT ![c] = k]
    ELSE /\ pc' = [pc EXCEPT ![c] = "L25"]
         /\ i' = [i EXCEPT ![c] = k]
         /\ UNCHANGED ret

\* Lines 25 and 54: the outer loop comes to index k of interfaces: v is
\* interface k, or the range is exhausted and Get returns its own error.
ToInterface(c, k) ==
    IF k > Len(os.ifaces)
    THEN /\ ret' = [ret EXCEPT ![c] = [addr |-> "", err |-> ErrNotConnected]]
         /\ pc' = [pc EXCEPT ![c] = "ret54"]
         /\ i' = [i EXCEPT ![c] = k]
    ELSE /\ pc' = [pc EXCEPT ![c] = "L25"]
         /\ i' = [i EXCEPT ![c] = k]
         /\ UNCHANGED ret

\* Lines 36 and 52-53: the inner loop comes to index x of addrs: addr is
\* entry x, or the range is exhausted and the outer loop moves on.
ToEntry(c, x) ==
    /\ j' = [j EXCEPT ![c] = x]
    /\ IF x > Len(os.ifaces[i[c]].addrs)
       THEN ToInterface(c, i[c] + 1)
       ELSE /\ pc' = [pc EXCEPT ![c] = "L36"]
            /\ UNCHANGED <<i, ret>>

\* Mutant of CallInterfaces: the error of net.Interfaces() is replaced by
\* Get's own error instead of being passed on.
CallInterfacesMasksError(c) ==
    /\ pc[c] = "L21"
    /\ IF os.err # NoError
       THEN /\ ret' = [ret EXCEPT ![c] = [addr |-> "", err |-> ErrNotConnected]]
            /\ pc' = [pc EXCEPT ![c] = "ret23"]
            /\ UNCHANGED i
       ELSE ToInterface(c, 1)
    /\ UNCHANGED <<os, j, queried>>

\* Mutant of CallInterfaces: the interfaces are ranged over in an order that
\* differs from call to call (as a range over a map would), so the loop may
\* reach any interface first.
CallInterfacesAnyOrder(c) ==
    /\ pc[c] = "L21"
    /\ IF os.err # NoError
       THEN /\ ret' = [ret EXCEPT ![c] = [addr |-> "", err |-> os.err]]
            /\ pc' = [pc EXCEPT ![c] = "ret23"]
            /\ UNCHANGED i
       ELSE \E k \in 1..(Len(os.ifaces) + 1) : ToInterface(c, k)
    /\ UNCHANGED <<os, j, queried>>

\* Lines 21-25: interfaces, err := net.Interfaces(), and the outer loop begins.
CallInterfaces(c) ==
    /\ pc[c] = "L21"
    /\ IF os.err # NoError
       THEN /\ ret' = [ret EXCEPT ![c] = [addr |-> "", err |-> os.err]]
            /\ pc' = [pc EXCEPT ![c] = "ret23"]
            /\ UNCHANGED i
       ELSE ToInterface(c, 1)
    /\ UNCHANGED <<os, j, queried>>

\* Mutant of NextInterface: an interface whose Addrs() fails is skipped
\* (continue) instead of ending the call.
NextInterfaceSkipsFailed(c) ==
    /\ pc[c] = "L25"
    /\ LET v == os.ifaces[i[c]]
       IN IF IsDown(v) \/ IsLoopbackInterface(v)
          THEN /\ ToInterface(c, i[c] + 1)
               /\ UNCHANGED <<j, queried>>
          ELSE /\ queried' = [queried EXCEPT ![c] = Append(queried[c], i[c])]
               /\ IF v.err # NoError
                  THEN /\ ToInterface(c, i[c] + 1)
                       /\ UNCHANGED j
                  ELSE ToEntry(c, 1)
    /\ UNCHANGED os

\* Mutant of NextInterface: v.Addrs() is called before the flags are tested.
NextInterfaceEager(c) ==
    /\ pc[c] = "L25"
    /\ LET v == os.ifaces[i[c]]
       IN /\ queried' = [queried EXCEPT ![c] = Append(queried[c], i[c])]
          /\ IF v.err # NoError
             THEN /\ ret' = [ret EXCEPT ![c] = [addr |-> "", err |-> v.err]]
                  /\ pc' = [pc EXCEPT ![c] = "ret34"]
                  /\ UNCHANGED <<i, j>>
             ELSE IF IsDown(v) \/ IsLoopbackInterface(v)
                  THEN /\ ToInterface(c, i[c] + 1)
                       /\ UNCHANGED j
                  ELSE ToEntry(c, 1)
    /\ UNCHANGED os

\* Lines 26-36: one iteration of the outer loop up to the start of the inner
\* loop: the tests of the flags, v.Addrs() and its error check.
NextInterface(c) ==
    /\ pc[c] = "L25"
    /\ LET v == os.ifaces[i[c]]
       IN IF IsDown(v) \/ IsLoopbackInterface(v)
          THEN /\ ToInterface(c, i[c] + 1)
               /\ UNCHANGED <<j, queried>>
          ELSE /\ queried' = [queried EXCEPT ![c] = Append(queried[c], i[c])]
               /\ IF v.err # NoError
                  THEN /\ ret' = [ret EXCEPT ![c] = [addr |-> "", err |-> v.err]]
                       /\ pc' = [pc EXCEPT ![c] = "ret34"]
                       /\ UNCHANGED <<i, j>>
                  ELSE ToEntry(c, 1)
    /\ UNCHANGED os

\* Mutant of NextAddr: a match is remembered instead of returned at once, so
\* the last match of the interface is the result.
NextAddrLast(c) ==
    /\ pc[c] = "L36"
    /\ LET list == os.ifaces[i[c]].addrs
           addr == Deref(list[j[c]])
       IN IF \/ Skipped(addr)
             \/ \E x \in DOMAIN list : x > j[c] /\ ~Skipped(Deref(list[x]))
          THEN ToEntry(c, j[c] + 1)
          ELSE /\ ret' = [ret EXCEPT ![c] =
                             [addr |-> String(To4(UnderlyingIP(addr))),
                              err |-> NoError]]
               /\ pc' = [pc EXCEPT ![c] = "ret51"]
               /\ UNCHANGED <<i, j>>
    /\ UNCHANGED <<os, queried>>

\* Lines 37-52: one iteration of the inner loop.
NextAddr(c) ==
    /\ pc[c] = "L36"
    /\ LET addr == Deref(os.ifaces[i[c]].addrs[j[c]])
       IN IF Skipped(addr)
          THEN ToEntry(c, j[c] + 1)
          ELSE /\ ret' = [ret EXCEPT ![c] =
                             [addr |-> String(To4(UnderlyingIP(addr))),
                              err |-> NoError]]
               /\ pc' = [pc EXCEPT ![c] = "ret51"]
               /\ UNCHANGED <<i, j>>
    /\ UNCHANGED <<os, queried>>

Next ==
    \E c \in Callers :
        \/ CallInterfaces(c)
        \/ NextInterface(c)
        \/ NextAddr(c)

Spec == Init /\ [][Next]_vars

SpecConc == InitConc /\ [][Next]_vars

\* The other representations of each address entry: the same IP value, bare
\* instead of prefixed, prefixed instead of bare, or with another prefix length.
Variants ==
    [ p \in AddrUniverse \cup OtherForms |->
        { q \in (AddrUniverse \cup OtherForms) \ {p} :
              /\ Heap[p].type \in {"IPNet", "IPAddr"}
              /\ Heap[q].type \in {"IPNet", "IPAddr"}
              /\ Heap[q].IP = Heap[p].IP } ]

\* Between two calls the operating system reports entry x of interface k in
\* another representation e2; call b then runs against that state.
Reform(k, x, e2) ==
    /\ Done("a")
    /\ pc["b"] = "idle"
    /\ e2 \in Variants[os.ifaces[k].addrs[x]]
    /\ os' = [os EXCEPT !.ifaces[k].addrs[x] = e2]
    /\ pc' = [pc EXCEPT !["b"] = "L21"]
    /\ UNCHANGED <<i, j, ret, queried>>

NextRepr ==
    \/ Next
    \/ /\ Done("a")
       /\ pc["b"] = "idle"
       /\ \E k \in DOMAIN os.ifaces :
            \E x \in DOMAIN os.ifaces[k].addrs :
              \E e2 \in Variants[os.ifaces[k].addrs[x]] : Reform(k, x, e2)

SpecRepr == Init /\ [][NextRepr]_vars

\* ----------------------------------------------------- notions of the claims
\* The interface list net.Interfaces() answers: none when it fails.
Listed == IF os.err = NoError THEN os.ifaces ELSE << >>

\* An interface that is up and not loopback-flagged.
Usable(v) == "up" \in v.Flags /\ "loopback" \notin v.Flags

\* The IP value an entry carries, in whatever representation; nil if none.
EntryIP(e) == IF "IP" \in DOMAIN e THEN e.IP ELSE NilIP

\* An address with an IP value that is not loopback and has a 4-byte form.
Qualifying(e) ==
    /\ EntryIP(e) # NilIP
    /\ ~IsLoopback(EntryIP(e))
    /\ To4(EntryIP(e)) # NilIP

\* The positions <<interface, entry>> of the qualifying addresses of usable
\* interfaces.
QualPositions ==
    { p \in UNION { {<<k, x>> : x \in DOMAIN Listed[k].addrs} : k \in DOMAIN Listed } :
          Usable(Listed[p[1]]) /\ Qualifying(Deref(Listed[p[1]].addrs[p[2]])) }

\* Position p comes before q in (interface order, then address order).
Before(p, q) == p[1] < q[1] \/ (p[1] = q[1] /\ p[2] < q[2])

\* The entry the call of c stands at.
Current(c) == Deref(os.ifaces[i[c]].addrs[j[c]])

AllListingsSucceed ==
    /\ os.err = NoError
    /\ \A k \in DOMAIN os.ifaces : os.ifaces[k].err = NoError

\* ------------------------------------------------------------------ claims

\* C1 (first-match ordering): when every listing succeeds and some usable
\* interface carries a qualifying address, Get returns, with a nil error, the
\* dotted-decimal form of the qualifying address that is first in interface
\* order and then address order; no later one is returned in its place.
C1_FirstMatch ==
    \A c \in Callers :
        (AllListingsSucceed /\ Done(c) /\ QualPositions # {}) =>
            /\ pc[c] = "ret51"
            /\ <<i[c], j[c]>> \in QualPositions
            /\ \A q \in QualPositions :
                   q = <<i[c], j[c]>> \/ Before(<<i[c], j[c]>>, q)
            /\ ret[c] = [addr |-> String(To4(EntryIP(Current(c)))), err |-> NoError]

\* Witness of C1: a qualifying address on one interface and another on a later
\* interface; the first, 192.168.1.2/24, is returned as "192.168.1.2".
C1_Witness ==
    /\ AllListingsSucceed
    /\ pc["a"] = "ret51"
    /\ Cardinality(QualPositions) >= 2
    /\ \E q \in QualPositions : q[1] > i["a"]
    /\ os.ifaces[i["a"]].addrs = <<"&IPNet{192.168.1.2/24}">>
    /\ ret["a"] = [addr |-> "192.168.1.2", err |-> NoError]

\* C2 (interface filter): whenever Get succeeds, the address it returns was
\* read from an interface that is up and not loopback-flagged; no interface
\* that is down or loopback-flagged supplies the result.
C2_InterfaceFilter ==
    \A c \in Callers :
        (Done(c) /\ ret[c].err = NoError) =>
            /\ pc[c] = "ret51"
            /\ i[c] \in DOMAIN os.ifaces
            /\ "up" \in os.ifaces[i[c]].Flags
            /\ "loopback" \notin os.ifaces[i[c]].Flags
            /\ j[c] \in DOMAIN os.ifaces[i[c]].addrs
            /\ ret[c].addr = String(To4(EntryIP(Current(c))))

\* Witness of C2: a down interface and then a usable one, both carrying a
\* qualifying address; the usable one supplies the result.
C2_Witness ==
    /\ pc["a"] = "ret51"
    /\ i["a"] = 2
    /\ "up" \notin os.ifaces[1].Flags
    /\ \E x \in DOMAIN os.ifaces[1].addrs : Qualifying(Deref(os.ifaces[1].addrs[x]))
    /\ ret["a"].addr = "10.0.0.5"

\* C3 (address classification): an entry whose IP value is absent, is
\* loopback or has no 4-byte form is never the result: the step that examines
\* it returns no address and takes the scan on to the next entry (and, past
\* the last entry, on to the next interface).
C3_Classification ==
    /\ [](\A c \in Callers : pc[c] = "ret51" => Qualifying(Current(c)))
    /\ [][\A c \in Callers :
             ( /\ pc[c] = "L36"
               /\ ~Qualifying(Current(c))
               /\ <<pc[c], i[c], j[c]>> # <<pc[c], i[c], j[c]>>' )
             => ( /\ pc'[c] \in {"L36", "L25", "ret54"}
                  /\ j'[c] = j[c] + 1
                  /\ ret'[c].addr = ""
                  /\ pc'[c] = "L36" <=> j'[c] \in DOMAIN os.ifaces[i[c]].addrs
                  /\ pc'[c] = "L36" => i'[c] = i[c]
                  /\ pc'[c] # "L36" => i'[c] = i[c] + 1 )]_vars

\* Witness of C3: a loopback address on a usable interface was passed over
\* and the entry after it returned.
C3_Witness ==
    /\ pc["a"] = "ret51"
    /\ j["a"] = 2
    /\ os.ifaces[i["a"]].addrs[1] = "&IPNet{127.0.0.1/8}"

\* Every interface is down, loopback-flagged, or answers a list of addresses
\* that are all IPv6-only or loopback.
NothingQualifies ==
    /\ os.err = NoError
    /\ \A k \in DOMAIN os.ifaces :
         LET v == os.ifaces[k]
         IN \/ "up" \notin v.Flags
            \/ "loopback" \in v.Flags
            \/ /\ v.err = NoError
               /\ \A x \in DOMAIN v.addrs :
                    LET ip == EntryIP(Deref(v.addrs[x]))
                    IN ip # NilIP /\ (IsLoopback(ip) \/ To4(ip) = NilIP)

\* C4 (exhaustion): if the interface list is obtained and every interface is
\* down, loopback-flagged or carries only IPv6-only and loopback addresses,
\* Get returns no address and the error "not connected to the network".
C4_Exhaustion ==
    \A c \in Callers :
        (NothingQualifies /\ Done(c)) =>
            /\ pc[c] = "ret54"
            /\ ret[c] = [addr |-> "", err |-> ErrNotConnected]

\* Witness of C4: a usable interface carrying a loopback and an IPv6-only
\* address; the call ended at line 54.
C4_Witness ==
    /\ pc["a"] = "ret54"
    /\ \E k \in DOMAIN os.ifaces :
         /\ Usable(os.ifaces[k])
         /\ os.ifaces[k].addrs = <<"&IPNet{127.0.0.1/8}", "&IPNet{fe80::1/64}">>

\* C5 (interface-list failure): if net.Interfaces() fails, Get returns that
\* same error, which is not its own "not connected" error, with no address,
\* and never calls Addrs() on any interface.
C5_ListFailure ==
    os.err # NoError =>
        \A c \in Callers :
            /\ queried[c] = << >>
            /\ pc[c] \in {"idle", "L21", "ret23"}
            /\ Done(c) => /\ ret[c] = [addr |-> "", err |-> os.err]
                          /\ ret[c].err # ErrNotConnected

\* Witness of C5: the listing failed although a usable interface carries a
\* qualifying address.
C5_Witness ==
    /\ pc["a"] = "ret23"
    /\ os.err = ErrInterfaces
    /\ \E k \in DOMAIN os.ifaces :
         /\ Usable(os.ifaces[k])
         /\ \E x \in DOMAIN os.ifaces[k].addrs : Qualifying(Deref(os.ifaces[k].addrs[x]))

\* C6 (address-list failure): once Addrs() of an interface has failed, the
\* call has ended there with that same error: that interface is the last one
\* queried, it is queried once, and no later interface is looked at.
C6_AddrsFailureAborts ==
    \A c \in Callers :
        \A n \in DOMAIN queried[c] :
            os.ifaces[queried[c][n]].err # NoError =>
                /\ pc[c] = "ret34"
                /\ i[c] = queried[c][n]
                /\ n = Len(queried[c])
                /\ \A n2 \in DOMAIN queried[c] : queried[c][n2] = queried[c][n] => n2 = n
                /\ ret[c] = [addr |-> "", err |-> os.ifaces[queried[c][n]].err]

\* Witness of C6: the first interface's listing failed and the call ended,
\* although the second, usable interface carries a qualifying address.
C6_Witness ==
    /\ pc["a"] = "ret34"
    /\ i["a"] = 1
    /\ Len(os.ifaces) = 2
    /\ Usable(os.ifaces[2])
    /\ \E x \in DOMAIN os.ifaces[2].addrs : Qualifying(Deref(os.ifaces[2].addrs[x]))
    /\ ret["a"] = [addr |-> "", err |-> ErrAddrs]

\* C7 (no partial result): a call ends with a non-empty address and a nil
\* error, or with the empty string and a non-nil error; nothing else.
C7_NoPartialResult ==
    \A c \in Callers :
        Done(c) =>
            \/ ret[c].addr # "" /\ ret[c].err = NoError
            \/ ret[c].addr = "" /\ ret[c].err # NoError

\* Witness of C7: interfaces exist, none supplies an address, and the call
\* ended with an error and the empty string.
C7_Witness ==
    /\ pc["a"] = "ret54"
    /\ Len(os.ifaces) = 2
    /\ queried["a"] # << >>
    /\ ret["a"].addr = ""
    /\ ret["a"].err # NoError

\* C8 (determinism): two calls against the same operating system state,
\* overlapping in any way or one after the other, end at the same return
\* statement with the same pair.
C8_Determinism ==
    \A c1, c2 \in Callers :
        (Done(c1) /\ Done(c2)) =>
            /\ ret[c1] = ret[c2]
            /\ pc[c1] = pc[c2]

\* Witness of C8: both calls have ended, each having passed over an entry
\* and returned the address after it.
C8_Witness ==
    /\ \A c \in Callers : pc[c] = "ret51" /\ j[c] = 2
    /\ ret["a"].addr # ""
    /\ ret["b"] = ret["a"]

Reached(c) ==
    { k \in DOMAIN Listed :
          /\ Usable(Listed[k])
          /\ \/ k < i[c]
             \/ k = i[c] /\ pc[c] \in {"L36", "ret51", "ret34"} }

\* C10 (lazy address queries): Addrs() is called on the usable interfaces
\* only, in interface order, each once, and on none after the one that ended
\* the call; and a call ends with the error of an Addrs() exactly if some
\* usable interface's listing fails and no usable interface before it
\* carries a qualifying address.
C10_LazyQueries ==
    \A c \in Callers :
        /\ \A n \in DOMAIN queried[c] : n > 1 => queried[c][n - 1] < queried[c][n]
        /\ {queried[c][n] : n \in DOMAIN queried[c]} = Reached(c)
        /\ Done(c) =>
              ( pc[c] = "ret34" <=>
                  \E k \in DOMAIN Listed :
                      /\ Usable(Listed[k])
                      /\ Listed[k].err # NoError
                      /\ ~\E q \in QualPositions : q[1] < k )

\* Witness of C10: a down interface whose listing would fail is passed by,
\* and the next interface supplies the address.
C10_Witness ==
    /\ pc["a"] = "ret51"
    /\ i["a"] = 2
    /\ os.ifaces[1].err # NoError
    /\ queried["a"] = <<2>>

====
